---------------------------- MODULE Spec2Model ----------------------------
(***************************************************************************)
(* Model of src/src/App.jsx: the poll component (vote gate, identity       *)
(* token, vote ledger access, tally).                                      *)
(*                                                                         *)
(* A session is one mounted App component: a tab of the visitor's browser. *)
(* The tabs share localStorage; every client shares the Firestore          *)
(* collection 'votes' (the ledger).  Each await in the source is a         *)
(* suspension point: the request is answered by the collaborator in one    *)
(* step (which reads or writes the ledger) and the continuation of the     *)
(* async function runs in a later step.  React state read inside a handler *)
(* is the state of the render that created the handler; values used after  *)
(* an await are the ones captured when the function was called.            *)
(***************************************************************************)
EXTENDS Naturals, FiniteSets, Bags

\* ------------------------------------------------------------------ bounds
\* Number of addDoc calls the model lets the visitor's sessions issue.
MaxVotes == 2
\* Number of documents the model lets other visitors' clients add.
MaxOthers == 1
\* Number of documents in the collections the tally is computed from.
MaxDocs == 3

\* ------------------------------------------------------------- value sets
\* The tabs of the visitor's browser profile.
Sessions == {1, 2}

\* useState('') of userIP: the address before (or without) a lookup answer.
NoIP == ""
\* The address the lookup service reports for the visitor.
MyIP == "ip1"
IPs == {"ip1", "ip2"}

\* localStorage.getItem('_voteId') when the key is absent.
NoToken == "null"
\* crypto.randomUUID() in the visitor's browser: a value no other call
\* returns.  The browser generates at most one, since it generates only
\* while the key is absent and nothing removes the key.
NewToken == "t1"
\* The token of another visitor's browser.
OtherToken == "t2"

\* The keys of the initial stats object { A: 0, B: 0, C: 0 }.
Options == {"A", "B", "C"}
\* The options the model passes to submitVote.
OptionInputs == {"A", "B"}

\* The documents other visitors' clients add: written by the same
\* submitVote, so with the userIP of that client (possibly still '') and
\* the token stored in that browser.
OtherDocs == [option : {"B"}, IP : {NoIP} \cup IPs, voteID : {OtherToken}]

VARIABLES
    ledger,           \* the 'votes' collection: a bag of documents
    localStorage,     \* the value of the key '_voteId'
    mounted,          \* per session: the mount effect has run
    hasVoted, loading, userIP, captchaVerified, showCaptcha, voteStats,
    toast,            \* per session: the last toast shown
    cvs,              \* per session: the checkVoteStatus call of the mount effect
    ipf,              \* per session: the fetchIP call of the mount effect
    cbi,              \* per session: the checkVoteByIP call made by fetchIP
    subs,             \* per session: the submitVote calls suspended at addDoc
    reads,            \* per session: the fetchVoteStats calls suspended at getDocs
    issued,           \* number of addDoc calls issued by the sessions
    others            \* number of documents added by other clients

vars == <<ledger, localStorage, mounted, hasVoted, loading, userIP,
          captchaVerified, showCaptcha, voteStats, toast, cvs, ipf, cbi,
          subs, reads, issued, others>>

gateVars == <<hasVoted, loading, userIP, captchaVerified, showCaptcha>>

\* ------------------------------------------------------------ pure helpers
One(x) == SetToBag({x})

\* The documents a where(field, '==', value) query returns.
DocsWhereVoteID(l, v) == {d \in BagToSet(l) : d.voteID = v}
DocsWhereIP(l, ip) == {d \in BagToSet(l) : d.IP = ip}

\* The answer of a query whose caller looks at .empty and at
\* docs[0].data().voteID: "empty", or the voteID of the document the store
\* lists first (the store orders by document id, which addDoc draws at
\* random, so any matching document can be first).
FirstVoteIDs(docs) ==
    IF docs = {} THEN {"empty"} ELSE {d.voteID : d \in docs}

\* An option field that is missing or empty: falsy in `if (option)`.
NoOption == ""
\* An option field that is none of the keys of the initial stats object.
UnknownOption == "X"

\* fetchVoteStats' loop over the documents of the answer:
\*   if (option) stats[option] = Number(stats[option] || 0) + 1
\* applied once per copy of each document.
RECURSIVE CountVotes(_, _)
CountVotes(l, stats) ==
    IF l = EmptyBag THEN stats
    ELSE LET d == CHOOSE x \in BagToSet(l) : TRUE
             cur == IF d.option \in DOMAIN stats THEN stats[d.option] ELSE 0
             next == IF d.option = NoOption THEN stats
                     ELSE [k \in (DOMAIN stats) \cup {d.option} |->
                             IF k = d.option THEN cur + 1 ELSE stats[k]]
         IN CountVotes(l (-) One(d), next)

\* totalVotes: Object.values(voteStats).reduce((a, b) => a + b, 0).
RECURSIVE TotalVotes(_)
TotalVotes(stats) ==
    IF DOMAIN stats = {} THEN 0
    ELSE LET k == CHOOSE x \in DOMAIN stats : TRUE
         IN stats[k] + TotalVotes([j \in (DOMAIN stats) \ {k} |-> stats[j]])

ZeroStats == [k \in Options |-> 0]

\* generateVoteId: the stored token, or a new one that is stored.
\* The value is both what the call returns and what the key holds after it.
GenerateVoteId == IF localStorage # NoToken THEN localStorage ELSE NewToken

IdleCvs == [pc |-> "idle", voteId |-> NoToken, idRes |-> "pending", ipRes |-> "pending"]
IdleCbi == [pc |-> "idle", res |-> "pending"]
\* A call that has returned: the answers it held are gone.  The record of a
\* returned checkVoteStatus call keeps the token the call resolved.
EndCvs(c, pc) == [c EXCEPT !.pc = pc, !.idRes = "pending", !.ipRes = "pending"]
EndCbi(pc) == [IdleCbi EXCEPT !.pc = pc]

\* A fetchVoteStats call suspended at getDocs: who called it, whether the
\* store has answered, and the stats computed from the answer.
NewRead(from) == [from |-> from, served |-> FALSE, stats |-> ZeroStats]

\* -------------------------------------------------------------------- Init
Init ==
    /\ ledger = EmptyBag
    /\ localStorage = NoToken
    /\ mounted = [s \in Sessions |-> FALSE]
    /\ hasVoted = [s \in Sessions |-> FALSE]
    /\ loading = [s \in Sessions |-> TRUE]
    /\ userIP = [s \in Sessions |-> NoIP]
    /\ captchaVerified = [s \in Sessions |-> FALSE]
    /\ showCaptcha = [s \in Sessions |-> FALSE]
    /\ voteStats = [s \in Sessions |-> ZeroStats]
    /\ toast = [s \in Sessions |-> "none"]
    /\ cvs = [s \in Sessions |-> IdleCvs]
    /\ ipf = [s \in Sessions |-> "idle"]
    /\ cbi = [s \in Sessions |-> IdleCbi]
    /\ subs = [s \in Sessions |-> EmptyBag]
    /\ reads = [s \in Sessions |-> EmptyBag]
    /\ issued = 0
    /\ others = 0

\* ------------------------------------------------------- the other clients
\* Another visitor's client adds a document to the shared collection.
OtherClientAdds(doc) ==
    /\ others < MaxOthers
    /\ others' = others + 1
    /\ ledger' = ledger (+) One(doc)
    /\ UNCHANGED <<localStorage, mounted, gateVars, voteStats, toast, cvs, ipf,
                   cbi, subs, reads, issued>>

\* ------------------------------------------------------- the mount effect
\* useEffect(() => { checkVoteStatus(); fetchVoteStats(); fetchIP();
\*                   logEvent(analytics, 'page_view'); }, [])
\* Each call runs to its first await: checkVoteStatus resolves the token and
\* issues its two queries with the userIP of the first render (''),
\* fetchVoteStats issues its read, fetchIP issues its request.  logEvent is
\* the effect's last statement: the three calls have been made whether it
\* returns or throws.
Mount(s) ==
    /\ ~mounted[s]
    /\ mounted' = [mounted EXCEPT ![s] = TRUE]
    /\ localStorage' = GenerateVoteId
    /\ cvs' = [cvs EXCEPT ![s] = [pc |-> "wait", voteId |-> GenerateVoteId,
                                  idRes |-> "pending", ipRes |-> "pending"]]
    /\ reads' = [reads EXCEPT ![s] = @ (+) One(NewRead("mount"))]
    /\ ipf' = [ipf EXCEPT ![s] = "pending"]
    /\ UNCHANGED <<ledger, gateVars, voteStats, toast, cbi, subs, issued, others>>

\* ---------------------------------------------------------- checkVoteStatus
\* The store answers the query where('voteID', '==', voteId).
CvsAnswerId(s) ==
    /\ cvs[s].pc = "wait"
    /\ cvs[s].idRes = "pending"
    /\ cvs' = [cvs EXCEPT ![s].idRes =
                 IF DocsWhereVoteID(ledger, cvs[s].voteId) = {} THEN "empty" ELSE "hit"]
    /\ UNCHANGED <<ledger, localStorage, mounted, gateVars, voteStats,
                   toast, ipf, cbi, subs, reads, issued, others>>

\* The store answers the query where('IP', '==', userIP); userIP is the
\* value of the render in which the mount effect ran, the initial ''.
CvsAnswerIp(s) ==
    /\ cvs[s].pc = "wait"
    /\ cvs[s].ipRes = "pending"
    /\ \E r \in FirstVoteIDs(DocsWhereIP(ledger, NoIP)) :
           cvs' = [cvs EXCEPT ![s].ipRes = r]
    /\ UNCHANGED <<ledger, localStorage, mounted, gateVars, voteStats,
                   toast, ipf, cbi, subs, reads, issued, others>>

\* checkVoteStatus' continuation looking at ipQuery only.
CvsCompleteIpOnly(s) ==
    /\ cvs[s].pc = "wait"
    /\ cvs[s].idRes # "pending"
    /\ cvs[s].ipRes # "pending"
    /\ IF cvs[s].ipRes # "empty"
       THEN /\ hasVoted' = [hasVoted EXCEPT ![s] = TRUE]
            /\ localStorage' = cvs[s].ipRes
       ELSE UNCHANGED <<hasVoted, localStorage>>
    /\ loading' = [loading EXCEPT ![s] = FALSE]
    /\ cvs' = [cvs EXCEPT ![s] = EndCvs(cvs[s], "done")]
    /\ UNCHANGED <<ledger, mounted, userIP, captchaVerified, showCaptcha,
                   voteStats, toast, ipf, cbi, subs, reads, issued, others>>

\* Both queries are answered: the continuation after Promise.all, then the
\* finally block.
CvsComplete(s) ==
    /\ cvs[s].pc = "wait"
    /\ cvs[s].idRes # "pending"
    /\ cvs[s].ipRes # "pending"
    /\ IF cvs[s].idRes = "hit" \/ cvs[s].ipRes # "empty"
       THEN /\ hasVoted' = [hasVoted EXCEPT ![s] = TRUE]
            /\ localStorage' =
                 IF cvs[s].idRes = "hit" THEN cvs[s].voteId ELSE cvs[s].ipRes
       ELSE UNCHANGED <<hasVoted, localStorage>>
    /\ loading' = [loading EXCEPT ![s] = FALSE]
    /\ cvs' = [cvs EXCEPT ![s] = EndCvs(cvs[s], "done")]
    /\ UNCHANGED <<ledger, mounted, userIP, captchaVerified, showCaptcha,
                   voteStats, toast, ipf, cbi, subs, reads, issued, others>>

\* checkVoteStatus with setLoading(false) at the end of its try block
\* instead of a finally block.
CvsFailNoFinally(s) ==
    /\ cvs[s].pc = "wait"
    /\ cvs[s].idRes = "pending" \/ cvs[s].ipRes = "pending"
    /\ cvs' = [cvs EXCEPT ![s] = EndCvs(cvs[s], "failed")]
    /\ UNCHANGED <<ledger, localStorage, mounted, gateVars, voteStats, toast,
                   ipf, cbi, subs, reads, issued, others>>

\* One of the two queries fails: Promise.all rejects, the catch block logs,
\* the finally block runs.
CvsFail(s) ==
    /\ cvs[s].pc = "wait"
    /\ cvs[s].idRes = "pending" \/ cvs[s].ipRes = "pending"
    /\ loading' = [loading EXCEPT ![s] = FALSE]
    /\ cvs' = [cvs EXCEPT ![s] = EndCvs(cvs[s], "failed")]
    /\ UNCHANGED <<ledger, localStorage, mounted, hasVoted, userIP,
                   captchaVerified, showCaptcha, voteStats, toast, ipf, cbi,
                   subs, reads, issued, others>>

\* ------------------------------------------------- fetchIP, checkVoteByIP
\* The lookup answers with the session's address: setUserIP(data.ip), and
\* checkVoteByIP(data.ip) runs to its await.
FetchIPAnswer(s) ==
    /\ ipf[s] = "pending"
    /\ ipf' = [ipf EXCEPT ![s] = "done"]
    /\ userIP' = [userIP EXCEPT ![s] = MyIP]
    /\ cbi' = [cbi EXCEPT ![s] =
                 IF MyIP # NoIP THEN [pc |-> "wait", res |-> "pending"]
                 ELSE @]
    /\ UNCHANGED <<ledger, localStorage, mounted, hasVoted, loading,
                   captchaVerified, showCaptcha, voteStats, toast, cvs, subs,
                   reads, issued, others>>

\* fetch or response.json() throws: the catch block logs.
FetchIPFail(s) ==
    /\ ipf[s] = "pending"
    /\ ipf' = [ipf EXCEPT ![s] = "failed"]
    /\ UNCHANGED <<ledger, localStorage, mounted, gateVars, voteStats,
                   toast, cvs, cbi, subs, reads, issued, others>>

\* The store answers checkVoteByIP's query where('IP', '==', ip); ip is
\* data.ip, the value fetchIP has just passed to setUserIP.
CbiAnswer(s) ==
    /\ cbi[s].pc = "wait"
    /\ cbi[s].res = "pending"
    /\ \E r \in FirstVoteIDs(DocsWhereIP(ledger, userIP[s])) :
           cbi' = [cbi EXCEPT ![s].res = r]
    /\ UNCHANGED <<ledger, localStorage, mounted, gateVars, voteStats,
                   toast, cvs, ipf, subs, reads, issued, others>>

\* checkVoteByIP's continuation.
CbiComplete(s) ==
    /\ cbi[s].pc = "wait"
    /\ cbi[s].res # "pending"
    /\ IF cbi[s].res # "empty"
       THEN /\ hasVoted' = [hasVoted EXCEPT ![s] = TRUE]
            /\ localStorage' = cbi[s].res
       ELSE UNCHANGED <<hasVoted, localStorage>>
    /\ cbi' = [cbi EXCEPT ![s] = EndCbi("done")]
    /\ UNCHANGED <<ledger, mounted, loading, userIP, captchaVerified,
                   showCaptcha, voteStats, toast, cvs, ipf, subs, reads, issued, others>>

\* checkVoteByIP's query fails: the catch block logs.
CbiFail(s) ==
    /\ cbi[s].pc = "wait"
    /\ cbi[s].res = "pending"
    /\ cbi' = [cbi EXCEPT ![s] = EndCbi("failed")]
    /\ UNCHANGED <<ledger, localStorage, mounted, gateVars, voteStats,
                   toast, cvs, ipf, subs, reads, issued, others>>

\* ----------------------------------------------------------- fetchVoteStats
\* The store answers getDocs(votesRef) with the collection as it is now.
StatsAnswer(s, r) ==
    /\ BagIn(r, reads[s])
    /\ ~r.served
    /\ reads' = [reads EXCEPT ![s] =
                   (@ (-) One(r)) (+) One([r EXCEPT !.served = TRUE,
                                                    !.stats = CountVotes(ledger, ZeroStats)])]
    /\ UNCHANGED <<ledger, localStorage, mounted, gateVars, voteStats,
                   toast, cvs, ipf, cbi, subs, issued, others>>

\* What follows `await fetchVoteStats()` in submitVote: the success toast.
\* The call made by the mount effect is not awaited.
AfterStats(s, from) ==
    IF from = "submit" THEN [toast EXCEPT ![s] = "success"] ELSE toast

\* fetchVoteStats' continuation: setVoteStats(stats).
StatsDeliver(s, r) ==
    /\ BagIn(r, reads[s])
    /\ r.served
    /\ voteStats' = [voteStats EXCEPT ![s] = r.stats]
    /\ toast' = AfterStats(s, r.from)
    /\ reads' = [reads EXCEPT ![s] = @ (-) One(r)]
    /\ UNCHANGED <<ledger, localStorage, mounted, gateVars, cvs, ipf,
                   cbi, subs, issued, others>>

\* getDocs fails: fetchVoteStats catches and logs, and returns normally.
StatsFail(s, r) ==
    /\ BagIn(r, reads[s])
    /\ ~r.served
    /\ toast' = AfterStats(s, r.from)
    /\ reads' = [reads EXCEPT ![s] = @ (-) One(r)]
    /\ UNCHANGED <<ledger, localStorage, mounted, gateVars, voteStats,
                   cvs, ipf, cbi, subs, issued, others>>

\* ------------------------------------------------------------ the handlers
\* The handlers are the functions App passes to its elements.  The main
\* return, which holds the buttons and the modal, is rendered only once
\* loading is false; the ReCAPTCHA widget and the modal's close button are
\* inside the modal, which is open while showCaptcha is true.  submitVote is
\* bound to no element of App.jsx: the model lets the visitor's vote intent
\* call it, with any option, from any render of the main return.
Rendered(s) == mounted[s] /\ ~loading[s]

\* onCaptchaChange(value): value is the token, or null when it expires.
OnCaptchaChange(s, value) ==
    /\ Rendered(s)
    /\ showCaptcha[s]
    /\ IF value # "null"
       THEN /\ captchaVerified' = [captchaVerified EXCEPT ![s] = TRUE]
            /\ showCaptcha' = [showCaptcha EXCEPT ![s] = FALSE]
       ELSE UNCHANGED <<captchaVerified, showCaptcha>>
    /\ UNCHANGED <<ledger, localStorage, mounted, hasVoted, loading,
                   userIP, voteStats, toast, cvs, ipf, cbi, subs, reads, issued, others>>

\* The modal's onClose: setShowCaptcha(false).
CloseModal(s) ==
    /\ Rendered(s)
    /\ showCaptcha[s]
    /\ showCaptcha' = [showCaptcha EXCEPT ![s] = FALSE]
    /\ UNCHANGED <<ledger, localStorage, mounted, hasVoted, loading,
                   userIP, captchaVerified, voteStats, toast, cvs, ipf, cbi,
                   subs, reads, issued, others>>

\* handleVoteClick without its hasVoted check.
HandleVoteClickUnguarded(s) ==
    /\ Rendered(s)
    /\ showCaptcha' = [showCaptcha EXCEPT ![s] = TRUE]
    /\ UNCHANGED <<ledger, localStorage, mounted, hasVoted, loading, userIP,
                   captchaVerified, voteStats, toast, cvs, ipf, cbi, subs,
                   reads, issued, others>>

HandleVoteClick(s) ==
    /\ Rendered(s)
    /\ IF hasVoted[s]
       THEN /\ toast' = [toast EXCEPT ![s] = "alreadyVoted"]
            /\ UNCHANGED showCaptcha
       ELSE /\ showCaptcha' = [showCaptcha EXCEPT ![s] = TRUE]
            /\ UNCHANGED toast
    /\ UNCHANGED <<ledger, localStorage, mounted, hasVoted, loading,
                   userIP, captchaVerified, voteStats, cvs, ipf, cbi, subs,
                   reads, issued, others>>

\* An option button: rendered while hasVoted is false, with
\* onClick={() => !hasVoted && handleVoteClick()}.  The three buttons have
\* the same onClick; none passes its option on.
ClickOption(s, option) ==
    /\ ~hasVoted[s]
    /\ HandleVoteClick(s)

\* The document submitVote passes to addDoc (the timestamp is not
\* modelled: nothing in App.jsx reads it).
VoteDoc(s, option) ==
    [option |-> option, IP |-> userIP[s], voteID |-> GenerateVoteId]

\* submitVote without its captchaVerified check.
SubmitVoteUnverified(s, option) ==
    /\ Rendered(s)
    /\ IF hasVoted[s]
       THEN /\ toast' = [toast EXCEPT ![s] = "alreadyVoted"]
            /\ UNCHANGED <<showCaptcha, localStorage, subs, issued>>
       ELSE /\ issued < MaxVotes
            /\ issued' = issued + 1
            /\ localStorage' = GenerateVoteId
            /\ subs' = [subs EXCEPT ![s] =
                          @ (+) One([doc |-> VoteDoc(s, option), pc |-> "adding"])]
            /\ UNCHANGED <<toast, showCaptcha>>
    /\ UNCHANGED <<ledger, mounted, hasVoted, loading, userIP,
                   captchaVerified, voteStats, cvs, ipf, cbi, reads, others>>

SubmitVote(s, option) ==
    /\ Rendered(s)
    /\ IF hasVoted[s]
       THEN /\ toast' = [toast EXCEPT ![s] = "alreadyVoted"]
            /\ UNCHANGED <<showCaptcha, localStorage, subs, issued, others>>
       ELSE IF ~captchaVerified[s]
       THEN /\ toast' = [toast EXCEPT ![s] = "verifyFirst"]
            /\ showCaptcha' = [showCaptcha EXCEPT ![s] = TRUE]
            /\ UNCHANGED <<localStorage, subs, issued, others>>
       ELSE /\ issued < MaxVotes
            /\ issued' = issued + 1
            /\ localStorage' = GenerateVoteId
            /\ subs' = [subs EXCEPT ![s] =
                          @ (+) One([doc |-> VoteDoc(s, option), pc |-> "adding"])]
            /\ UNCHANGED <<toast, showCaptcha>>
    /\ UNCHANGED <<ledger, mounted, hasVoted, loading, userIP,
                   captchaVerified, voteStats, cvs, ipf, cbi, reads, others>>

\* A store that enforces one document per voteID: the write is refused
\* while a document with the same voteID exists.
AddDocLandUnique(s, c) ==
    /\ BagIn(c, subs[s])
    /\ c.pc = "adding"
    /\ DocsWhereVoteID(ledger, c.doc.voteID) = {}
    /\ ledger' = ledger (+) One(c.doc)
    /\ subs' = [subs EXCEPT ![s] = (@ (-) One(c)) (+) One([c EXCEPT !.pc = "added"])]
    /\ UNCHANGED <<localStorage, mounted, gateVars, voteStats, toast,
                   cvs, ipf, cbi, reads, issued, others>>

\* A store that keys the documents by voteID: the write replaces the
\* documents that carry the same voteID.
AddDocLandKeyed(s, c) ==
    /\ BagIn(c, subs[s])
    /\ c.pc = "adding"
    /\ ledger' = [d \in {x \in BagToSet(ledger) : x.voteID # c.doc.voteID} |->
                    CopiesIn(d, ledger)] (+) One(c.doc)
    /\ subs' = [subs EXCEPT ![s] = (@ (-) One(c)) (+) One([c EXCEPT !.pc = "added"])]
    /\ UNCHANGED <<localStorage, mounted, gateVars, voteStats, toast,
                   cvs, ipf, cbi, reads, issued, others>>

\* The store writes the document of an addDoc call.
AddDocLand(s, c) ==
    /\ BagIn(c, subs[s])
    /\ c.pc = "adding"
    /\ ledger' = ledger (+) One(c.doc)
    /\ subs' = [subs EXCEPT ![s] = (@ (-) One(c)) (+) One([c EXCEPT !.pc = "added"])]
    /\ UNCHANGED <<localStorage, mounted, gateVars, voteStats, toast,
                   cvs, ipf, cbi, reads, issued, others>>

\* submitVote's catch block: logEvent(analytics, 'vote_error', ...), then the
\* error toast.  If logEvent throws, the toast is not reached.
CatchBlock(s, logThrows) ==
    IF logThrows THEN toast ELSE [toast EXCEPT ![s] = "error"]

\* addDoc resolved: logEvent(analytics, 'vote_submitted', ...),
\* setHasVoted(true), and fetchVoteStats runs to its await.  If logEvent
\* throws, control goes to the catch block instead.
SubmitResume(s, c, logThrows, catchLogThrows) ==
    /\ BagIn(c, subs[s])
    /\ c.pc = "added"
    /\ subs' = [subs EXCEPT ![s] = @ (-) One(c)]
    /\ IF ~logThrows
       THEN /\ hasVoted' = [hasVoted EXCEPT ![s] = TRUE]
            /\ reads' = [reads EXCEPT ![s] = @ (+) One(NewRead("submit"))]
            /\ UNCHANGED toast
       ELSE /\ toast' = CatchBlock(s, catchLogThrows)
            /\ UNCHANGED <<hasVoted, reads>>
    /\ UNCHANGED <<ledger, localStorage, mounted, loading, userIP,
                   captchaVerified, showCaptcha, voteStats, cvs, ipf, cbi,
                   issued, others>>

\* addDoc rejected: nothing was written; the catch block runs.
AddDocFail(s, c, catchLogThrows) ==
    /\ BagIn(c, subs[s])
    /\ c.pc = "adding"
    /\ subs' = [subs EXCEPT ![s] = @ (-) One(c)]
    /\ toast' = CatchBlock(s, catchLogThrows)
    /\ UNCHANGED <<ledger, localStorage, mounted, gateVars, voteStats,
                   cvs, ipf, cbi, reads, issued, others>>

\* A step of session s other than the answers to its tally reads: a
\* collaborator's answer or a handler call.
GateStep(s) ==
    \/ Mount(s)
    \/ CvsAnswerId(s)
    \/ CvsAnswerIp(s)
    \/ CvsComplete(s)
    \/ CvsFail(s)
    \/ FetchIPAnswer(s)
    \/ FetchIPFail(s)
    \/ CbiAnswer(s)
    \/ CbiComplete(s)
    \/ CbiFail(s)
    \/ \E v \in {"token", "null"} : OnCaptchaChange(s, v)
    \/ CloseModal(s)
    \/ HandleVoteClick(s)
    \/ \E o \in OptionInputs : ClickOption(s, o)
    \/ \E o \in OptionInputs : SubmitVote(s, o)
    \/ \E c \in BagToSet(subs[s]) : AddDocLand(s, c)
    \/ \E c \in BagToSet(subs[s]), t \in BOOLEAN : AddDocFail(s, c, t)
    \/ \E c \in BagToSet(subs[s]), t1 \in BOOLEAN, t2 \in BOOLEAN :
           SubmitResume(s, c, t1, t2)

\* The answers to the tally reads of session s.
StatsStep(s) ==
    \/ \E r \in BagToSet(reads[s]) : StatsAnswer(s, r)
    \/ \E r \in BagToSet(reads[s]) : StatsDeliver(s, r)
    \/ \E r \in BagToSet(reads[s]) : StatsFail(s, r)

OtherStep == \E doc \in OtherDocs : OtherClientAdds(doc)

\* One visitor session and the other visitors' clients.
Next ==
    \/ GateStep(1)
    \/ StatsStep(1)
    \/ OtherStep

Spec == Init /\ [][Next]_vars

\* The same, in an environment where the store leaves the tally reads
\* unanswered.  The tally reads write only reads, voteStats and the success
\* toast, and nothing in GateStep reads reads or voteStats.
NextGate ==
    \/ GateStep(1)
    \/ OtherStep

SpecGate == Init /\ [][NextGate]_vars

\* The page load of one session: the mount effect and the calls it starts.
\* The store answers or rejects each query of checkVoteStatus, and the
\* continuation of a settled call runs; nothing is assumed of the address
\* lookup, which may stay unanswered for ever.
LoadStep(s) ==
    \/ Mount(s)
    \/ CvsAnswerId(s)
    \/ CvsAnswerIp(s)
    \/ CvsComplete(s)
    \/ CvsFail(s)
    \/ FetchIPAnswer(s)
    \/ FetchIPFail(s)
    \/ CbiAnswer(s)
    \/ CbiComplete(s)
    \/ CbiFail(s)

NextLoad ==
    \/ LoadStep(1)
    \/ OtherStep

FairLoad ==
    /\ WF_vars(CvsAnswerId(1) \/ CvsFail(1))
    /\ WF_vars(CvsAnswerIp(1) \/ CvsFail(1))
    /\ WF_vars(CvsComplete(1))

SpecLoad == Init /\ [][NextLoad]_vars /\ FairLoad

\* Two tabs of the visitor's browser, in an environment where no
\* collaborator call fails, logEvent returns, every challenge shown is
\* solved, the address lookup and the tally reads stay unanswered, the
\* visitor picks one option, and the other clients vote before their
\* address lookup has answered.
TabOption == "A"
UnknownAddressDocs == {d \in OtherDocs : d.IP = NoIP}

TabStep(s) ==
    \/ Mount(s)
    \/ CvsAnswerId(s)
    \/ CvsAnswerIp(s)
    \/ CvsComplete(s)
    \/ ClickOption(s, TabOption)
    \/ OnCaptchaChange(s, "token")
    \/ SubmitVote(s, TabOption)
    \/ \E c \in BagToSet(subs[s]) : AddDocLand(s, c)
    \/ \E c \in BagToSet(subs[s]) : SubmitResume(s, c, FALSE, FALSE)

NextTabs ==
    \/ TabStep(1)
    \/ TabStep(2)
    \/ \E doc \in UnknownAddressDocs : OtherClientAdds(doc)

SpecTabs == Init /\ [][NextTabs]_vars

\* ======================================================================
\* The gate's Verified state, read off the flags: the state in which a
\* submitVote call passes both of its checks.
Verified(s) == Rendered(s) /\ ~hasVoted[s] /\ captchaVerified[s]

\* The submitVote calls of session s whose addDoc has not settled yet.
Outstanding(s) == BagCardinality(subs[s])
\* The documents the visitor's sessions have added to the ledger.
AppendedByVisitor == BagCardinality(ledger) - others

\* The ledger holds a document with token t, or with the resolved address ip.
HasVoteFor(t, ip) ==
    \/ DocsWhereVoteID(ledger, t) # {}
    \/ ip # NoIP /\ DocsWhereIP(ledger, ip) # {}

\* The call SubmitVote(s, option) suspends at addDoc.
NewCall(s, option) == [doc |-> VoteDoc(s, option), pc |-> "adding"]

\* C1: a session never has more than one submitVote call outstanding at
\* addDoc and never adds more than one document to the ledger (one session
\* is active in SpecGate, so the visitor's documents are that session's).
C1_OneAppendPerSession ==
    /\ \A s \in Sessions : Outstanding(s) <= 1
    /\ AppendedByVisitor <= 1

\* C2: a submitVote call in the Verified state, made when the ledger holds a
\* document with the visitor's token or the visitor's address, issues no
\* addDoc and sets hasVoted.
C2_RecheckBeforeAppend ==
    [][\A s \in Sessions, o \in OptionInputs :
         (Verified(s) /\ HasVoteFor(GenerateVoteId, userIP[s]) /\ SubmitVote(s, o))
         => (subs' = subs /\ issued' = issued /\ hasVoted'[s])]_vars

\* The parts of C3 that do not concern the challenge: a submitVote call with
\* captchaVerified false issues no addDoc and leaves hasVoted and the ledger
\* unchanged; a call is issued, and a document is written, only for a session
\* whose captchaVerified is true; captchaVerified becomes true only in
\* onCaptchaChange with a token.
NoAppendUnverified(s) ==
    /\ \A o \in OptionInputs :
         (SubmitVote(s, o) /\ ~captchaVerified[s])
         => (subs' = subs /\ issued' = issued /\ ledger' = ledger
             /\ hasVoted' = hasVoted)
    /\ subs'[s] # subs[s] => captchaVerified[s]
    /\ \A c \in BagToSet(subs[s]) : AddDocLand(s, c) => captchaVerified[s]
    /\ (~captchaVerified[s] /\ captchaVerified'[s]) => OnCaptchaChange(s, "token")

\* C3 as stated: the above, and every submitVote call with captchaVerified
\* false opens the challenge.
C3_AsStated ==
    [][\A s \in Sessions :
         /\ NoAppendUnverified(s)
         /\ \A o \in OptionInputs :
              (SubmitVote(s, o) /\ ~captchaVerified[s]) => showCaptcha'[s]]_vars

\* C3 as amended: the above, and a submitVote call with captchaVerified
\* false opens the challenge unless hasVoted is true (then the call is
\* rejected as already voted and showCaptcha keeps its value).
C3_UnverifiedSubmitRejected ==
    [][\A s \in Sessions :
         /\ NoAppendUnverified(s)
         /\ \A o \in OptionInputs :
              (SubmitVote(s, o) /\ ~captchaVerified[s])
              => IF hasVoted[s] THEN showCaptcha'[s] = showCaptcha[s]
                 ELSE showCaptcha'[s]]_vars

\* A submitVote call was rejected for want of verification: the warning is
\* up, the challenge is open, nothing was issued.
C3_Witness ==
    /\ toast[1] = "verifyFirst"
    /\ showCaptcha[1]
    /\ ~captchaVerified[1]
    /\ ~hasVoted[1]
    /\ issued = 0

\* C4: with hasVoted true, a handleVoteClick or submitVote call shows the
\* already-voted warning and changes nothing else: no addDoc is issued, the
\* ledger, showCaptcha, hasVoted, captchaVerified and the stored token keep
\* their values.
C4_BlockedRejectsIntent ==
    [][\A s \in Sessions :
         (hasVoted[s] /\ (HandleVoteClick(s) \/ \E o \in OptionInputs : SubmitVote(s, o)))
         => /\ toast'[s] = "alreadyVoted"
            /\ UNCHANGED <<ledger, subs, issued, showCaptcha, hasVoted,
                           captchaVerified, localStorage>>]_vars

\* A vote intent was rejected in the Blocked state.
C4_Witness ==
    /\ hasVoted[1]
    /\ toast[1] = "alreadyVoted"
    /\ ~showCaptcha[1]

\* C5: when addDoc fails, no document is added, hasVoted and captchaVerified
\* keep their values (so a gate that was Verified is Verified again, and the
\* next submitVote call needs no challenge), the challenge stays closed, and
\* the error toast is shown.
C5_FailedAppendBackToVerified ==
    [][\A s \in Sessions : \A c \in BagToSet(subs[s]) : \A t \in BOOLEAN :
         AddDocFail(s, c, t)
         => /\ ledger' = ledger
            /\ hasVoted'[s] = hasVoted[s]
            /\ captchaVerified'[s]
            /\ showCaptcha'[s] = showCaptcha[s]
            /\ toast'[s] = "error"]_vars

\* C6: when addDoc has succeeded, the continuation of submitVote sets
\* hasVoted and starts a tally read; hasVoted, once true, stays true; and
\* with hasVoted true no vote intent issues an addDoc or opens the challenge.
C6_SuccessCompletes ==
    [][\A s \in Sessions :
         /\ \A c \in BagToSet(subs[s]) : \A t1 \in BOOLEAN, t2 \in BOOLEAN :
              SubmitResume(s, c, t1, t2)
              => (hasVoted'[s] /\ reads'[s] = reads[s] (+) One(NewRead("submit")))
         /\ hasVoted[s] => hasVoted'[s]
         /\ (hasVoted[s] /\ (HandleVoteClick(s) \/ \E o \in OptionInputs : SubmitVote(s, o)))
            => (subs' = subs /\ showCaptcha' = showCaptcha)]_vars

\* C7: a throwing logEvent changes nothing: the step submitVote takes after
\* addDoc settles is the step it takes when logEvent returns.
C7_EventSinkFailureSwallowed ==
    [][\A s \in Sessions : \A c \in BagToSet(subs[s]) : \A t1 \in BOOLEAN, t2 \in BOOLEAN :
         /\ SubmitResume(s, c, t1, t2) => SubmitResume(s, c, FALSE, FALSE)
         /\ AddDocFail(s, c, t1) => AddDocFail(s, c, FALSE)]_vars

\* C8: a click on an option button in the Verified state issues an addDoc
\* for a document with that option and the visitor's token.
C8_VerifiedClickSubmits ==
    [][\A s \in Sessions, o \in OptionInputs :
         (Verified(s) /\ ClickOption(s, o)) => BagIn(NewCall(s, o), subs'[s])]_vars

\* C9: a session that is not Blocked, whose address is unknown and whose
\* token has no document in the ledger, is not Blocked by its next step,
\* whatever the ledger holds.
C9_UnknownAddressNeverBlocks ==
    [][\A s \in Sessions :
         (mounted[s] /\ ~hasVoted[s] /\ userIP[s] = NoIP
          /\ DocsWhereVoteID(ledger, GenerateVoteId) = {})
         => ~hasVoted'[s]]_vars

\* C10: once loading is false, the address lookup has settled and the
\* duplicate check on the resolved address has been answered.
C10_LoadingEndsAfterAddressCheck ==
    \A s \in Sessions :
        (mounted[s] /\ ~loading[s]) => (ipf[s] # "pending" /\ cbi[s].pc # "wait")

\* ======================================================================
\* A visit that starts where an earlier visit of the same browser ended
\* after voting: the key '_voteId' holds the browser's token and the ledger
\* holds the document that visit added (with the address it had resolved,
\* or '' if the lookup had not answered).  That visit's addDoc call is
\* counted in issued.
EarlierVotes == [option : OptionInputs, IP : {NoIP, MyIP}, voteID : {NewToken}]

InitReturning ==
    /\ \E d \in EarlierVotes : ledger = One(d)
    /\ localStorage = NewToken
    /\ mounted = [s \in Sessions |-> FALSE]
    /\ hasVoted = [s \in Sessions |-> FALSE]
    /\ loading = [s \in Sessions |-> TRUE]
    /\ userIP = [s \in Sessions |-> NoIP]
    /\ captchaVerified = [s \in Sessions |-> FALSE]
    /\ showCaptcha = [s \in Sessions |-> FALSE]
    /\ voteStats = [s \in Sessions |-> ZeroStats]
    /\ toast = [s \in Sessions |-> "none"]
    /\ cvs = [s \in Sessions |-> IdleCvs]
    /\ ipf = [s \in Sessions |-> "idle"]
    /\ cbi = [s \in Sessions |-> IdleCbi]
    /\ subs = [s \in Sessions |-> EmptyBag]
    /\ reads = [s \in Sessions |-> EmptyBag]
    /\ issued = 1
    /\ others = 0

SpecReturn == InitReturning /\ [][NextGate]_vars

\* C12: a stored token keeps its value in every step.
C12_TokenNeverChanges ==
    [][localStorage # NoToken => localStorage' = localStorage]_vars

\* C13: in a browser that starts with no stored token, the token a
\* submitVote call writes into its document is the token the session's
\* checkVoteStatus call resolved at page load, and a generateVoteId call made
\* while a token is stored leaves the stored value as it is.
C13_ResolverIdempotent ==
    [][\A s \in Sessions :
         /\ (SubmitVote(s, TabOption) /\ issued' # issued)
            => VoteDoc(s, TabOption).voteID = cvs[s].voteId
         /\ ((Mount(s) \/ (SubmitVote(s, TabOption) /\ issued' # issued))
             /\ localStorage # NoToken)
            => localStorage' = localStorage]_vars

\* ======================================================================
\* The tally of an arbitrary collection: the collection is not
\* schema-enforced, so its documents may carry any option field.  The
\* session loads the page and its tally read is answered, delivered or
\* rejected.
TallyDocs == [option : {"A", "C", UnknownOption, NoOption}, IP : {NoIP},
              voteID : {OtherToken}]

\* The bags over TallyDocs with at most MaxDocs documents.
TallyLedgers ==
    {[d \in {x \in TallyDocs : n[x] > 0} |-> n[d]] :
        n \in {m \in [TallyDocs -> 0..MaxDocs] : TotalVotes(m) <= MaxDocs}}

InitTally ==
    /\ ledger \in TallyLedgers
    /\ localStorage = NoToken
    /\ mounted = [s \in Sessions |-> FALSE]
    /\ hasVoted = [s \in Sessions |-> FALSE]
    /\ loading = [s \in Sessions |-> TRUE]
    /\ userIP = [s \in Sessions |-> NoIP]
    /\ captchaVerified = [s \in Sessions |-> FALSE]
    /\ showCaptcha = [s \in Sessions |-> FALSE]
    /\ voteStats = [s \in Sessions |-> ZeroStats]
    /\ toast = [s \in Sessions |-> "none"]
    /\ cvs = [s \in Sessions |-> IdleCvs]
    /\ ipf = [s \in Sessions |-> "idle"]
    /\ cbi = [s \in Sessions |-> IdleCbi]
    /\ subs = [s \in Sessions |-> EmptyBag]
    /\ reads = [s \in Sessions |-> EmptyBag]
    /\ issued = 0
    /\ others = 0

NextTally ==
    \/ Mount(1)
    \/ StatsStep(1)

SpecTally == InitTally /\ [][NextTally]_vars

\* The documents of l whose option field is o.
CountOption(l, o) ==
    BagCardinality([d \in {x \in BagToSet(l) : x.option = o} |-> CopiesIn(d, l)])
\* The documents of l whose option field is not one of the fixed options.
Unrecognized(l) ==
    BagCardinality([d \in {x \in BagToSet(l) : x.option \notin Options} |-> CopiesIn(d, l)])

\* C14: the stats a tally read computes map exactly the fixed options to the
\* number of documents with that option, and their total is the number of
\* documents minus the number of documents with an unrecognized option.
\* (The collection does not change in SpecTally, so the collection a served
\* read was computed from is ledger.)
C14_TallySkipsUnrecognized ==
    \A s \in Sessions : \A r \in BagToSet(reads[s]) :
        r.served
        => /\ DOMAIN r.stats = Options
           /\ \A o \in Options : r.stats[o] = CountOption(ledger, o)
           /\ TotalVotes(r.stats) = BagCardinality(ledger) - Unrecognized(ledger)

\* C15: no step removes a document from the ledger or changes one: every
\* document has at least as many copies after a step as before it, so a
\* token that has a document keeps having one.
C15_LedgerAppendOnly ==
    [][/\ \A d \in BagToSet(ledger) : CopiesIn(d, ledger') >= CopiesIn(d, ledger)
       /\ \A v \in {NewToken, OtherToken} :
            DocsWhereVoteID(ledger, v) # {} => DocsWhereVoteID(ledger', v) # {}]_vars

\* The visitor's session has added two documents next to another
\* visitor's, and its submitVote has resumed after the second.
C15_Witness ==
    /\ BagCardinality(ledger) = 3
    /\ others = 1
    /\ Cardinality(DocsWhereVoteID(ledger, NewToken)) = 2
    /\ hasVoted[1]
    /\ subs[1] = EmptyBag

\* C16: the store accepts every addDoc call that is suspended, whatever the
\* ledger holds: also the call of a tab whose token already has a document,
\* written by the other tab's call.
C16_ConcurrentTabsBothAppend ==
    \A s \in Sessions : \A c \in BagToSet(subs[s]) :
        c.pc = "adding" => ENABLED AddDocLand(s, c)

\* Both tabs have passed the page-load check and the challenge and have
\* called submitVote; both documents are written, with the same voteID, and
\* neither submitVote has resumed yet.
C16_Witness ==
    /\ \A s \in Sessions :
         subs[s] = One([doc |-> [option |-> TabOption, IP |-> NoIP, voteID |-> NewToken],
                        pc |-> "added"])
    /\ CopiesIn([option |-> TabOption, IP |-> NoIP, voteID |-> NewToken], ledger) = 2
    /\ \A s \in Sessions : ~hasVoted[s] /\ captchaVerified[s]

\* The continuation of a call the mount effect started: the address lookup,
\* checkVoteByIP or checkVoteStatus settles.
Completion(s) ==
    \/ FetchIPAnswer(s)
    \/ FetchIPFail(s)
    \/ CbiComplete(s)
    \/ CbiFail(s)
    \/ CvsComplete(s)
    \/ CvsFail(s)

\* C17: with hasVoted true (the gate is Completed or Blocked), the
\* completion of the address lookup, of checkVoteByIP or of checkVoteStatus
\* leaves hasVoted, captchaVerified, showCaptcha and the stored token as
\* they are.
C17_LateCompletionIgnored ==
    [][\A s \in Sessions :
         (hasVoted[s] /\ Completion(s))
         => /\ hasVoted'[s] = hasVoted[s]
            /\ captchaVerified'[s] = captchaVerified[s]
            /\ showCaptcha'[s] = showCaptcha[s]
            /\ localStorage' = localStorage]_vars

\* C18: hasVoted and showCaptcha are never both true.
C18_NoChallengeWhileBlocked ==
    \A s \in Sessions : ~(hasVoted[s] /\ showCaptcha[s])

\* C19: a session whose mount effect has run eventually has loading false.
C19_LoadingEnds ==
    \A s \in Sessions : mounted[s] ~> ~loading[s]

\* Loading has ended although checkVoteStatus failed and the address lookup
\* has not answered.
C19_Witness ==
    /\ cvs[1].pc = "failed"
    /\ ipf[1] = "pending"
    /\ ~loading[1]

\* C20: the total of the displayed tally never decreases (the ledger only
\* grows, so a tally with a smaller total comes from an older read), and
\* when submitVote shows its success toast the displayed tally counts at
\* least the vote just written.
C20_TallyNeverGoesBack ==
    [][\A s \in Sessions :
         /\ TotalVotes(voteStats'[s]) >= TotalVotes(voteStats[s])
         /\ (toast'[s] = "success" /\ toast[s] # "success")
            => TotalVotes(voteStats'[s]) >= 1]_vars

=============================================================================
